---- MODULE Spec2Model ----
(***************************************************************************)
(* Model of expense-tracker-cli (src/main.go): the persisted store, its    *)
(* load/save discipline and the mutating and reporting commands.           *)
(*                                                                         *)
(* Amounts are float64 in the program; the model uses small integers for   *)
(* the finite values and one distinguished value, NaN, for the float that  *)
(* compares false with everything and that encoding/json refuses.          *)
(***************************************************************************)
EXTENDS Integers, Sequences, FiniteSets, TLC

VARIABLES
    file,      \* content at dataPath(): the committed store file
    tmp,       \* content at dataPath() + ".tmp"
    clock,     \* the host clock read by time.Now()
    out,       \* what the last finished invocation reported
    assigned,  \* history: ids reported by successful adds
    ledger,    \* history: id -> amount last accepted for it, for ids not deleted
    proc       \* per process: position inside Store.save, its in-memory store
               \* and the file its open descriptor refers to

vars == <<file, tmp, clock, out, assigned, ledger, proc>>

----------------------------------------------------------------------------
(* Bounds of the model *)

MaxClock == 2

\* most expenses in a store that list is run on
MaxListed == 3

----------------------------------------------------------------------------
(* Constants of the program and the inputs drawn for the commands *)

defaultCat == "General"

\* strconv.ParseFloat("NaN", 64): a value for which every comparison is false
NaN == -1000

\* time.Now() as a calendar date / year / month
Today == "2025-01-20"
CurYear == 2025
CurMonth == 1

\* the invocations that may be inside save; SpecSave runs one
Procs == {1, 2}

NoStore == [nextId |-> 0, expenses |-> <<>>, budgets |-> <<>>]
NoFile == [state |-> "missing", data |-> NoStore]
EmptyFile == [state |-> "empty", data |-> NoStore]
PartialFile(st) == [state |-> "partial", data |-> st]
FullFile(st) == [state |-> "full", data |-> st]

\* A file's bytes, block by block, for what two writers can leave in one file:
\* the encoding of st is EncLen(st) blocks, block i of it written <<st, i>>;
\* Hole is a block of zero bytes left by a write beyond the end of the file.
EncLen(st) == 2 + Len(st.expenses) + Cardinality(DOMAIN st.budgets)
Enc(st) == [i \in 1..EncLen(st) |-> <<st, i>>]
Hole == <<NoStore, 0>>

\* any other content: blocks is what the file holds
MixedFile(blocks) == [state |-> "mixed", data |-> NoStore, blocks |-> blocks]

Blocks(f) ==
    CASE f.state = "full" -> Enc(f.data)
      [] f.state = "partial" -> SubSeq(Enc(f.data), 1, 1)
      [] f.state = "mixed" -> f.blocks
      [] OTHER -> <<>>

FileOf(blocks) ==
    IF blocks = <<>> THEN EmptyFile
    ELSE LET st == blocks[1][1]
         IN  IF blocks = Enc(st) THEN FullFile(st)
             ELSE IF blocks = SubSeq(Enc(st), 1, 1) THEN PartialFile(st)
             ELSE MixedFile(blocks)

\* write(fd, new) at offset off of a file holding old
Overwrite(old, off, new) ==
    LET end == IF Len(old) > off + Len(new) THEN Len(old) ELSE off + Len(new)
    IN  [i \in 1..end |-> IF i > off /\ i <= off + Len(new) THEN new[i - off]
                          ELSE IF i <= Len(old) THEN old[i]
                          ELSE Hole]

\* json.Decoder.Decode reads one value from the start of the file and does not
\* look at what follows it
Decodes(f) ==
    \/ f.state = "full"
    \/ /\ f.state = "mixed"
       /\ LET st == f.blocks[1][1]
          IN  Len(f.blocks) > EncLen(st) /\ SubSeq(f.blocks, 1, EncLen(st)) = Enc(st)

Decoded(f) == IF f.state = "full" THEN f.data ELSE f.blocks[1][1]

\* float comparisons, false whenever an operand is NaN
FLe(a, b) == a # NaN /\ b # NaN /\ a <= b
FGe(a, b) == a # NaN /\ b # NaN /\ a >= b
FGt(a, b) == a # NaN /\ b # NaN /\ a > b

\* strings.TrimSpace on the texts the model draws
TrimSpace(s) ==
    CASE s = "" -> ""
      [] s = " " -> ""
      [] s = " Lunch " -> "Lunch"
      [] s = " food " -> "food"
      [] OTHER -> s

\* Unicode case folding as used by strings.EqualFold
Fold(s) ==
    CASE s = "Food" -> "food"
      [] s = "FOOD" -> "food"
      [] s = "General" -> "general"
      [] s = "GENERAL" -> "general"
      [] OTHER -> s

EqualFold(a, b) == Fold(a) = Fold(b)

\* time.Parse(dateLayout, s): the calendar date, or an error
ParseDate(s) ==
    CASE s = "2025-01-20" -> [ok |-> TRUE, year |-> 2025, month |-> 1, day |-> 20]
      [] s = "2025-02-05" -> [ok |-> TRUE, year |-> 2025, month |-> 2, day |-> 5]
      [] s = "2024-02-05" -> [ok |-> TRUE, year |-> 2024, month |-> 2, day |-> 5]
      [] OTHER -> [ok |-> FALSE, year |-> 0, month |-> 0, day |-> 0]

\* "%04d-%02d" / time.Format(monthKeyLayout): the YYYY-MM text of a year and month
MonthKeyText(year, month) ==
    CASE year = 2025 /\ month = 1 -> "2025-01"
      [] year = 2025 /\ month = 2 -> "2025-02"
      [] year = 2025 /\ month = 3 -> "2025-03"
      [] OTHER -> "other"

monthKeyFromDate(date) ==
    LET t == ParseDate(date)
    IN  IF ~t.ok THEN [err |-> TRUE, key |-> ""]
        ELSE [err |-> FALSE, key |-> MonthKeyText(t.year, t.month)]

parseDateOrToday(s) ==
    IF TrimSpace(s) = "" THEN [err |-> FALSE, date |-> Today]
    ELSE IF ~ParseDate(s).ok THEN [err |-> TRUE, date |-> ""]
    ELSE [err |-> FALSE, date |-> s]

----------------------------------------------------------------------------
(* Load *)

loadStore(f) ==
    IF f.state = "missing"
    THEN [err |-> "", st |-> [nextId |-> 1, expenses |-> <<>>, budgets |-> <<>>]]
    ELSE IF ~Decodes(f)
    THEN [err |-> "corrupt", st |-> NoStore]
    ELSE [err |-> "",
          st |-> [Decoded(f) EXCEPT !.nextId = IF @ = 0 THEN 1 ELSE @]]

----------------------------------------------------------------------------
(* Helpers *)

RECURSIVE SumFrom(_, _, _, _)
SumFrom(es, i, key, category) ==
    IF i > Len(es) THEN 0
    ELSE LET e == es[i]
             mk == monthKeyFromDate(e.date)
             hit == /\ ~mk.err
                    /\ mk.key = key
                    /\ (category = "" \/ EqualFold(category, e.category))
         IN  (IF hit THEN e.amount ELSE 0) + SumFrom(es, i + 1, key, category)

sumForMonth(st, key, category) == SumFrom(st.expenses, 1, key, category)

\* position of the first expense with this id, 0 when there is none
findByID(st, id) ==
    LET hits == {i \in 1..Len(st.expenses) : st.expenses[i].id = id}
    IN  IF hits = {} THEN 0 ELSE CHOOSE i \in hits : \A j \in hits : i <= j

\* mutant: warns already when the total meets the budget
ExceedsOrMeets(total, budget) == FGe(total, budget)
\* `total > budget`
Exceeds(total, budget) == FGt(total, budget)

\* the warning printed, <<month-key, budget, spent>>, or <<>> when none is
warnIfBudgetExceeded(st, date, category) ==
    LET mk == monthKeyFromDate(date)
    IN  IF mk.err THEN <<>>
        ELSE IF mk.key \notin DOMAIN st.budgets \/ FLe(st.budgets[mk.key], 0) THEN <<>>
        ELSE LET total == sumForMonth(st, mk.key, category)
             IN  IF Exceeds(total, st.budgets[mk.key])
                 THEN <<mk.key, st.budgets[mk.key], total>>
                 ELSE <<>>

----------------------------------------------------------------------------
(* Store.save: the effect of each step on the two paths, and the whole call *)

MapSet(b, k, v) == [x \in (DOMAIN b) \cup {k} |-> IF x = k THEN v ELSE b[x]]

\* json.Encoder.Encode returns UnsupportedValueError for a NaN float
Encodable(st) ==
    /\ \A i \in 1..Len(st.expenses) : st.expenses[i].amount # NaN
    /\ \A k \in DOMAIN st.budgets : st.budgets[k] # NaN

\* the points of Store.save at which the operating system may report an error
SaveFailPoints == {"none", "mkdir", "create", "write", "close", "rename"}

\* the failures drawn when a command runs alone from start to exit; a failed
\* rename, which leaves the temp file behind, is followed step by step in SpecSave
CmdFailPoints == SaveFailPoints \ {"rename"}

\* the two paths, as a record, after each step of Store.save
\* mutant: creates, and so truncates, the data path itself
CreatedInPlace(fs) == [fs EXCEPT !.file = EmptyFile]
\* os.Create(tmp): the temp path holds a new, empty file
Created(fs) == [fs EXCEPT !.tmp = EmptyFile]
\* enc.Encode(st) has written part of, then all of, the encoding
WrittenPart(fs, st) == [fs EXCEPT !.tmp = PartialFile(st)]
Written(fs, st) == [fs EXCEPT !.tmp = FullFile(st)]
\* os.Remove(tmp)
Removed(fs) == [fs EXCEPT !.tmp = NoFile]
\* os.Rename(tmp, path)
Renamed(fs) == [file |-> fs.tmp, tmp |-> NoFile]

SaveReturn(fs, err) == [file |-> fs.file, tmp |-> fs.tmp, err |-> err]

\* Store.save run to its return by one process alone: the two paths afterwards
\* and the error returned ("" for nil)
save(f, t, st, fail) ==
    LET fs == [file |-> f, tmp |-> t]
    IN  IF fail \in {"mkdir", "create"} THEN SaveReturn(fs, "io")
        ELSE IF ~Encodable(st) THEN SaveReturn(Removed(Created(fs)), "encode")
        ELSE IF fail \in {"write", "close"}
        THEN SaveReturn(Removed(Written(Created(fs), st)), "io")
        ELSE IF fail = "rename" THEN SaveReturn(Written(Created(fs), st), "io")
        ELSE SaveReturn(Renamed(Written(Created(fs), st)), "")

----------------------------------------------------------------------------
(* The commands up to their call of save: the error they return before it,  *)
(* or the in-memory store they hand to save                                 *)

\* mutant: lets an amount of 0 through
AmountRejectedNegOnly(v) == v # NaN /\ v < 0
\* `*amount <= 0` (cmdAdd) and `amt.val <= 0` (cmdUpdate)
AmountRejected(v) == FLe(v, 0)

\* mutant: tests the flag's text untrimmed
SuppliedRaw(s) == s # ""
\* a text flag counts as supplied when strings.TrimSpace of it is not empty
Supplied(s) == TrimSpace(s) # ""

\* mutant: numbers the new expense by the count of stored ones
NewIDByCount(st) == Len(st.expenses) + 1
\* ID: st.NextID
NewID(st) == st.nextId

\* mutant: forgets st.NextID++
AfterAddNoIncrement(st, e) == [st EXCEPT !.expenses = Append(@, e)]
\* st.Expenses = append(st.Expenses, e); st.NextID++
AfterAdd(st, e) == [st EXCEPT !.expenses = Append(@, e), !.nextId = @ + 1]

Res(err, sv, st, id, date) ==
    [err |-> err, save |-> sv, st |-> st, id |-> id, date |-> date]

AddResult(f, desc, amount, date, cat, now) ==
    IF TrimSpace(desc) = "" THEN Res("description", FALSE, NoStore, 0, "")
    ELSE IF AmountRejected(amount) THEN Res("amount", FALSE, NoStore, 0, "")
    ELSE LET d == parseDateOrToday(date)
         IN  IF d.err THEN Res("date", FALSE, NoStore, 0, "")
             ELSE LET ld == loadStore(f)
                  IN  IF ld.err # "" THEN Res(ld.err, FALSE, NoStore, 0, "")
                      ELSE LET e == [id |-> NewID(ld.st),
                                     date |-> d.date,
                                     description |-> TrimSpace(desc),
                                     amount |-> amount,
                                     category |-> TrimSpace(cat),
                                     createdAt |-> now,
                                     updatedAt |-> now]
                           IN  Res("", TRUE, AfterAdd(ld.st, e), e.id, e.date)

UpdateResult(f, id, desc, amt, date, cat, now) ==
    IF id <= 0 THEN Res("id", FALSE, NoStore, 0, "")
    ELSE LET ld == loadStore(f)
         IN  IF ld.err # "" THEN Res(ld.err, FALSE, NoStore, 0, "")
             ELSE LET idx == findByID(ld.st, id)
                  IN  IF idx = 0 THEN Res("notfound", FALSE, ld.st, 0, "")
                      ELSE
    LET e0 == ld.st.expenses[idx]
        e1 == IF Supplied(desc)
              THEN [e0 EXCEPT !.description = TrimSpace(desc)] ELSE e0
        st1 == [ld.st EXCEPT !.expenses[idx] = e1]
    IN  IF amt.set /\ AmountRejected(amt.val) THEN Res("amount", FALSE, st1, 0, "")
        ELSE
    LET e2 == IF amt.set THEN [e1 EXCEPT !.amount = amt.val] ELSE e1
        st2 == [ld.st EXCEPT !.expenses[idx] = e2]
    IN  IF Supplied(date) /\ ~ParseDate(date).ok
        THEN Res("date", FALSE, st2, 0, "")
        ELSE
    LET e3 == IF Supplied(date) THEN [e2 EXCEPT !.date = date] ELSE e2
        e4 == IF Supplied(cat)
              THEN [e3 EXCEPT !.category = TrimSpace(cat)] ELSE e3
        e5 == [e4 EXCEPT !.updatedAt = now]
    IN  Res("", TRUE, [ld.st EXCEPT !.expenses[idx] = e5], id, e5.date)

\* mutant: drops the last entry whatever idx is
RemoveLast(s, idx) == SubSeq(s, 1, Len(s) - 1)
\* append(s[:idx], s[idx+1:]...) with idx counted from 1
RemoveAt(s, idx) == [i \in 1..(Len(s) - 1) |-> IF i < idx THEN s[i] ELSE s[i + 1]]

\* mutant: hands the highest id back when its expense is deleted
AfterDeleteReclaim(st, idx) ==
    [st EXCEPT !.expenses = RemoveAt(@, idx),
               !.nextId = IF st.expenses[idx].id = @ - 1 THEN @ - 1 ELSE @]
\* what cmdDelete hands to save: the entry removed, NextID as loaded
AfterDelete(st, idx) == [st EXCEPT !.expenses = RemoveAt(@, idx)]

DeleteResult(f, id) ==
    IF id <= 0 THEN Res("id", FALSE, NoStore, 0, "")
    ELSE LET ld == loadStore(f)
         IN  IF ld.err # "" THEN Res(ld.err, FALSE, NoStore, 0, "")
             ELSE LET idx == findByID(ld.st, id)
                  IN  IF idx = 0 THEN Res("notfound", FALSE, ld.st, 0, "")
                      ELSE Res("", TRUE, AfterDelete(ld.st, idx), id, "")

\* mutant: takes the flag's default for a value to store
SetGivenLax(set) == FGe(set, -1)
\* `*set >= 0`: the flag's default of -1 stands for "--set not given"
SetGiven(set) == FGe(set, 0)

BudgetResult(f, set, month, year) ==
    LET m == IF month = 0 THEN CurMonth ELSE month
        y == IF year = 0 THEN CurYear ELSE year
    IN  IF m < 1 \/ m > 12 THEN Res("month", FALSE, NoStore, 0, "")
        ELSE LET mk == MonthKeyText(y, m)
                 ld == loadStore(f)
             IN  IF ld.err # "" THEN Res(ld.err, FALSE, NoStore, 0, "")
                 ELSE IF SetGiven(set)
                 THEN Res("", TRUE,
                          [ld.st EXCEPT !.budgets = MapSet(@, mk, set)], 0, "")
                 ELSE Res("", FALSE, ld.st, 0, "")

RECURSIVE TotalFrom(_, _, _)
TotalFrom(es, i, category) ==
    IF i > Len(es) THEN 0
    ELSE (IF category = "" \/ EqualFold(category, es[i].category)
          THEN es[i].amount ELSE 0) + TotalFrom(es, i + 1, category)

\* the total cmdSummary computes, <<total>>, with the error it returns
SummaryResult(f, month, category) ==
    LET ld == loadStore(f)
    IN  IF ld.err # "" THEN [err |-> ld.err, total |-> <<>>]
        ELSE IF month = 0
        THEN [err |-> "", total |-> <<TotalFrom(ld.st.expenses, 1, category)>>]
        ELSE IF month < 1 \/ month > 12
        THEN [err |-> "month", total |-> <<>>]
        ELSE [err |-> "",
              total |-> <<sumForMonth(ld.st, MonthKeyText(CurYear, month),
                                      TrimSpace(category))>>]

----------------------------------------------------------------------------
(* Inputs drawn for the commands *)

AddDescs == {"", " Lunch "}
AddAmounts == {-1, 0, 1, 2, NaN}
AddDates == {"", "bad"}
AddCats == {defaultCat}

NotSet == [set |-> FALSE, val |-> 0]
UpdIds == 0..MaxClock
UpdAmounts == {NotSet} \cup {[set |-> TRUE, val |-> v] : v \in {-1, 0, 2, NaN}}
\* <<description, date, category>> as supplied to update
UpdTexts ==
    {<<" ", " ", " ">>, <<"", "", "Food">>}
        \cup ({"", "Tea"} \X {"", "bad", "2025-02-05"} \X {""})

BudgetSets == {-1, 0, 3, NaN}
BudgetMonths == {0, 2, 13}
BudgetYears == {0, 2025}

SummaryMonths == {0, 1, 3, 13}
SummaryCats == {"", "FOOD"}

----------------------------------------------------------------------------
(* State *)

Idle == [pc |-> "idle", cmd |-> "", res |-> Res("", FALSE, NoStore, 0, ""),
         amount |-> NotSet, loaded |-> NoFile, fd |-> "none"]

Report(cmd, err, id, warn, total) ==
    [cmd |-> cmd, err |-> err, id |-> id, warn |-> warn, total |-> total]

Init ==
    /\ file = NoFile
    /\ tmp = NoFile
    /\ clock = 0
    /\ out = Report("", "", 0, <<>>, <<>>)
    /\ assigned = {}
    /\ ledger = <<>>
    /\ proc = [p \in Procs |-> Idle]

\* the history after an invocation: amt is the amount the command supplied
Ledger(cmd, ok, id, amt) ==
    IF ~ok THEN ledger
    ELSE IF cmd = "add" \/ (cmd = "update" /\ amt.set) THEN MapSet(ledger, id, amt.val)
    ELSE IF cmd = "delete" THEN [x \in (DOMAIN ledger) \ {id} |-> ledger[x]]
    ELSE ledger

\* mutant: saves the in-memory store even when the command returns an error
SaveReturnsEager(r) ==
    IF r.st # NoStore THEN {save(file, tmp, r.st, fail) : fail \in CmdFailPoints}
    ELSE {[file |-> file, tmp |-> tmp, err |-> ""]}
\* what save may return to a command run alone; save is reached only by a
\* command that returned no error before it
SaveReturns(r) ==
    IF r.save THEN {save(file, tmp, r.st, fail) : fail \in CmdFailPoints}
    ELSE {[file |-> file, tmp |-> tmp, err |-> ""]}

\* what a mutating command reports and leaves in the histories when it returns:
\* r is what it computed before save, amt the amount supplied, serr save's error
Outcome(cmd, r, amt, serr) ==
    LET ok == r.err = "" /\ serr = ""
    IN  /\ out' = IF r.err # "" THEN Report(cmd, r.err, 0, <<>>, <<>>)
                  ELSE IF serr # "" THEN Report(cmd, serr, 0, <<>>, <<>>)
                  ELSE Report(cmd, "", r.id,
                              IF cmd \in {"add", "update"}
                              THEN warnIfBudgetExceeded(r.st, r.date, "")
                              ELSE <<>>,
                              <<>>)
        /\ assigned' = IF ok /\ cmd = "add" THEN assigned \cup {r.id} ELSE assigned
        /\ ledger' = Ledger(cmd, ok, r.id, amt)

\* a mutating command run from its load to its return, s what save returned
Invocation(cmd, r, amt, s) ==
    /\ file' = s.file
    /\ tmp' = s.tmp
    /\ Outcome(cmd, r, amt, s.err)

----------------------------------------------------------------------------
(* The commands, each one invocation run alone from start to exit *)

cmdAdd ==
    \E desc \in AddDescs, amount \in AddAmounts, date \in AddDates, cat \in AddCats :
        LET r == AddResult(file, desc, amount, date, cat, clock + 1)
        IN  /\ clock < MaxClock
            /\ \E s \in SaveReturns(r) :
                   Invocation("add", r, [set |-> TRUE, val |-> amount], s)
            /\ clock' = IF r.save THEN clock + 1 ELSE clock
            /\ UNCHANGED proc

cmdUpdate ==
    \E id \in UpdIds, amt \in UpdAmounts, txt \in UpdTexts :
        LET r == UpdateResult(file, id, txt[1], amt, txt[2], txt[3], clock + 1)
        IN  /\ clock < MaxClock
            /\ \E s \in SaveReturns(r) : Invocation("update", r, amt, s)
            /\ clock' = IF r.save THEN clock + 1 ELSE clock
            /\ UNCHANGED proc

cmdDelete ==
    \E id \in UpdIds :
        /\ \E s \in SaveReturns(DeleteResult(file, id)) :
               Invocation("delete", DeleteResult(file, id), NotSet, s)
        /\ UNCHANGED <<clock, proc>>

cmdBudget ==
    \E set \in BudgetSets, month \in BudgetMonths, year \in BudgetYears :
        /\ \E s \in SaveReturns(BudgetResult(file, set, month, year)) :
               Invocation("budget", BudgetResult(file, set, month, year), NotSet, s)
        /\ UNCHANGED <<clock, proc>>

cmdSummary ==
    \E month \in SummaryMonths, category \in SummaryCats :
        LET r == SummaryResult(file, month, category)
        IN  /\ out' = Report("summary", r.err, 0, <<>>,
                              IF r.err = "" THEN <<month, category>> \o r.total
                              ELSE <<>>)
            /\ UNCHANGED <<file, tmp, clock, assigned, ledger, proc>>

Next == cmdAdd \/ cmdUpdate \/ cmdDelete \/ cmdBudget \/ cmdSummary

Spec == Init /\ [][Next]_vars

----------------------------------------------------------------------------
(* Store.save step by step: an invocation as a process that may fail or be  *)
(* killed between any two steps                                             *)

StepAddAmounts == {0, 1, NaN}
StepUpdAmounts == {NotSet, [set |-> TRUE, val |-> 2]}
StepIds == 1..MaxClock
StepBudgetSets == {-1, 3}

Paths == [file |-> file, tmp |-> tmp]

\* the command has computed r: it returns at once, or enters save
Begin(p, cmd, r, amt) ==
    IF r.save
    THEN /\ proc' = [proc EXCEPT ![p] = [pc |-> "ensureDir", cmd |-> cmd, res |-> r,
                                         amount |-> amt, loaded |-> file,
                                         fd |-> "none"]]
         /\ UNCHANGED <<file, tmp, out, assigned, ledger>>
    ELSE /\ Outcome(cmd, r, amt, "")
         /\ UNCHANGED <<file, tmp, proc>>

StartAdd(p) ==
    /\ proc[p].pc = "idle"
    /\ clock < MaxClock
    /\ \E amount \in StepAddAmounts :
           LET r == AddResult(file, " Lunch ", amount, "", defaultCat, clock + 1)
           IN  /\ Begin(p, "add", r, [set |-> TRUE, val |-> amount])
               /\ clock' = IF r.save THEN clock + 1 ELSE clock

StartUpdate(p) ==
    /\ proc[p].pc = "idle"
    /\ clock < MaxClock
    /\ \E id \in StepIds, amt \in StepUpdAmounts :
           LET r == UpdateResult(file, id, "", amt, "", "", clock + 1)
           IN  /\ Begin(p, "update", r, amt)
               /\ clock' = IF r.save THEN clock + 1 ELSE clock

StartDelete(p) ==
    /\ proc[p].pc = "idle"
    /\ \E id \in StepIds : Begin(p, "delete", DeleteResult(file, id), NotSet)
    /\ UNCHANGED clock

StartBudget(p) ==
    /\ proc[p].pc = "idle"
    /\ \E set \in StepBudgetSets :
           Begin(p, "budget", BudgetResult(file, set, 0, 0), NotSet)
    /\ UNCHANGED clock

\* save returns err to the command, which returns: the process exits
Return(p, err) ==
    /\ Outcome(proc[p].cmd, proc[p].res, proc[p].amount, err)
    /\ proc' = [proc EXCEPT ![p] = Idle]

Goto(p, pc) == proc' = [proc EXCEPT ![p].pc = pc]

SetPaths(fs) == file' = fs.file /\ tmp' = fs.tmp

StepEnsureDir(p) ==
    /\ proc[p].pc = "ensureDir"
    /\ UNCHANGED <<file, tmp, clock>>
    /\ \/ Goto(p, "create") /\ UNCHANGED <<out, assigned, ledger>>
       \/ Return(p, "io")

StepCreate(p) ==
    /\ proc[p].pc = "create"
    /\ UNCHANGED clock
    /\ \/ /\ SetPaths(Created(Paths))
          /\ Goto(p, "encode")
          /\ UNCHANGED <<out, assigned, ledger>>
       \/ /\ UNCHANGED <<file, tmp>>
          /\ Return(p, "io")

\* enc.Encode: marshals, then writes; f.Close and os.Remove(tmp) on an error
StepEncode(p) ==
    /\ proc[p].pc = "encode"
    /\ UNCHANGED clock
    /\ IF ~Encodable(proc[p].res.st)
       THEN /\ SetPaths(Removed(Paths))
            /\ Return(p, "encode")
       ELSE \/ /\ SetPaths(WrittenPart(Paths, proc[p].res.st))
               /\ Goto(p, "write")
               /\ UNCHANGED <<out, assigned, ledger>>
            \/ /\ SetPaths(Removed(Paths))
               /\ Return(p, "io")

StepWrite(p) ==
    /\ proc[p].pc = "write"
    /\ UNCHANGED clock
    /\ \/ /\ SetPaths(Written(Paths, proc[p].res.st))
          /\ Goto(p, "close")
          /\ UNCHANGED <<out, assigned, ledger>>
       \/ /\ SetPaths(Removed(Paths))
          /\ Return(p, "io")

StepClose(p) ==
    /\ proc[p].pc = "close"
    /\ UNCHANGED clock
    /\ \/ /\ Goto(p, "rename")
          /\ UNCHANGED <<file, tmp, out, assigned, ledger>>
       \/ /\ SetPaths(Removed(Paths))
          /\ Return(p, "io")

StepRename(p) ==
    /\ proc[p].pc = "rename"
    /\ UNCHANGED clock
    /\ \/ /\ SetPaths(Renamed(Paths))
          /\ Return(p, "")
       \/ /\ UNCHANGED <<file, tmp>>
          /\ Return(p, "io")

\* the process is killed inside save: nothing of it runs any more
Crash(p) ==
    /\ proc[p].pc # "idle"
    /\ proc' = [proc EXCEPT ![p] = Idle]
    /\ out' = Report(proc[p].cmd, "killed", 0, <<>>, <<>>)
    /\ UNCHANGED <<file, tmp, clock, assigned, ledger>>

NextSave ==
    \/ StartAdd(1) \/ StartUpdate(1) \/ StartDelete(1) \/ StartBudget(1)
    \/ StepEnsureDir(1) \/ StepCreate(1) \/ StepEncode(1) \/ StepWrite(1)
    \/ StepClose(1) \/ StepRename(1) \/ Crash(1)

SpecSave == Init /\ [][NextSave]_vars

----------------------------------------------------------------------------
(* Two invocations at once. Both build the same temp path, path + ".tmp", so *)
(* what a process writes goes to the file its descriptor refers to, wherever *)
(* that file is by then: still at the temp path ("tmp"), renamed to the data *)
(* path by the other process ("file"), or unlinked ("gone"). Here system     *)
(* calls fail only for a reason the two processes give each other, no        *)
(* process is killed, and the invocations are adds, updates and deletes.     *)

FdTargets == {"none", "tmp", "file", "gone"}

\* where each open descriptor's file is after a rename of tmp onto the data path
AfterRename == [x \in FdTargets |->
                   CASE x = "tmp" -> "file" [] x = "file" -> "gone" [] OTHER -> x]
\* ... after the temp path was unlinked
AfterRemove == [x \in FdTargets |-> IF x = "tmp" THEN "gone" ELSE x]
NoMove == [x \in FdTargets |-> x]

\* process p takes the step me (a change of its own record); the others'
\* descriptors follow their files
Moved(p, me, move) ==
    proc' = [q \in Procs |-> IF q = p THEN me
                             ELSE [proc[q] EXCEPT !.fd = move[@]]]

ConcReturn(p, err, move) ==
    /\ Outcome(proc[p].cmd, proc[p].res, proc[p].amount, err)
    /\ Moved(p, Idle, move)

\* f.Write(new) at offset off through p's descriptor
WriteThrough(p, off, new) ==
    CASE proc[p].fd = "tmp" ->
             /\ tmp' = FileOf(Overwrite(Blocks(tmp), off, new))
             /\ file' = file
      [] proc[p].fd = "file" ->
             /\ file' = FileOf(Overwrite(Blocks(file), off, new))
             /\ tmp' = tmp
      [] OTHER -> UNCHANGED <<file, tmp>>

ConcEnsureDir(p) ==
    /\ proc[p].pc = "ensureDir"
    /\ Goto(p, "create")
    /\ UNCHANGED <<file, tmp, clock, out, assigned, ledger>>

\* os.Create(tmp): O_CREATE|O_TRUNC, an existing temp file is emptied in place
ConcCreate(p) ==
    /\ proc[p].pc = "create"
    /\ tmp' = EmptyFile
    /\ proc' = [proc EXCEPT ![p].pc = "encode", ![p].fd = "tmp"]
    /\ UNCHANGED <<file, clock, out, assigned, ledger>>

\* enc.Encode: on an error f.Close, os.Remove(tmp); else the encoding goes
\* out in one f.Write at offset 0, which the kernel does not interleave with
\* another write or truncation of the same file
ConcEncode(p) ==
    /\ proc[p].pc = "encode"
    /\ UNCHANGED clock
    /\ IF ~Encodable(proc[p].res.st)
       THEN /\ SetPaths(Removed(Paths))
            /\ ConcReturn(p, "encode", AfterRemove)
       ELSE /\ WriteThrough(p, 0, Enc(proc[p].res.st))
            /\ Goto(p, "close")
            /\ UNCHANGED <<out, assigned, ledger>>

ConcClose(p) ==
    /\ proc[p].pc = "close"
    /\ proc' = [proc EXCEPT ![p].pc = "rename", ![p].fd = "none"]
    /\ UNCHANGED <<file, tmp, clock, out, assigned, ledger>>

\* os.Rename(tmp, path): fails when the other process took the temp file away
ConcRename(p) ==
    /\ proc[p].pc = "rename"
    /\ UNCHANGED clock
    /\ IF tmp.state = "missing"
       THEN /\ UNCHANGED <<file, tmp>>
            /\ ConcReturn(p, "io", NoMove)
       ELSE /\ SetPaths(Renamed(Paths))
            /\ ConcReturn(p, "", AfterRename)

NextConc ==
    \E p \in Procs :
        \/ StartAdd(p) \/ StartUpdate(p) \/ StartDelete(p)
        \/ ConcEnsureDir(p) \/ ConcCreate(p) \/ ConcEncode(p)
        \/ ConcClose(p) \/ ConcRename(p)

SpecConc == Init /\ [][NextConc]_vars

----------------------------------------------------------------------------
(* filterExpenses and the list command *)

\* the bytes of a date text, which Go's < on strings compares one by one
Bytes(s) ==
    CASE s = "2025-01-20" -> <<50, 48, 50, 53, 45, 48, 49, 45, 50, 48>>
      [] s = "2025-02-05" -> <<50, 48, 50, 53, 45, 48, 50, 45, 48, 53>>
      [] s = "2024-02-05" -> <<50, 48, 50, 52, 45, 48, 50, 45, 48, 53>>
      [] OTHER -> <<>>

RECURSIVE BytesLess(_, _, _)
BytesLess(x, y, i) ==
    IF i > Len(y) THEN FALSE
    ELSE IF i > Len(x) THEN TRUE
    ELSE IF x[i] # y[i] THEN x[i] < y[i]
    ELSE BytesLess(x, y, i + 1)

StringLess(a, b) == BytesLess(Bytes(a), Bytes(b), 1)

lessByID(a, b) == a.id < b.id

\* the comparison handed to sort.Slice
less(a, b) == StringLess(a.date, b.date) \/ (a.date = b.date /\ a.id < b.id)

\* one pass of the insertion sort: e moves left past every element it is less than
RECURSIVE Insert(_, _)
Insert(s, e) ==
    IF s = <<>> THEN <<e>>
    ELSE IF less(e, s[Len(s)])
    THEN Append(Insert(SubSeq(s, 1, Len(s) - 1), e), s[Len(s)])
    ELSE Append(s, e)

\* sort.Slice on the first n elements (insertion sort, as Go runs below 12 elements)
RECURSIVE SortSlice(_, _)
SortSlice(s, n) == IF n = 0 THEN <<>> ELSE Insert(SortSlice(s, n - 1), s[n])

\* the loop body of filterExpenses: FALSE where it says continue
Kept(e, month, year, category) ==
    IF category # "" /\ ~EqualFold(category, e.category) THEN FALSE
    ELSE IF month > 0 \/ year > 0
    THEN LET t == ParseDate(e.date)
         IN  IF ~t.ok THEN FALSE
             ELSE IF year > 0 /\ t.year # year THEN FALSE
             ELSE IF month > 0 /\ t.month # month THEN FALSE
             ELSE TRUE
    ELSE TRUE

\* out: the slice returned; expenses: st.Expenses as the call leaves it (out is
\* appended to a nil slice, so sorting it works on its own backing array)
filterExpenses(st, month, year, category) ==
    LET Test(e) == Kept(e, month, year, category)
        kept == SelectSeq(st.expenses, Test)
    IN  [out |-> SortSlice(kept, Len(kept)), expenses |-> st.expenses]

ListResult(f, month, year, category) ==
    LET ld == loadStore(f)
    IN  IF ld.err # "" THEN [err |-> ld.err, items |-> <<>>]
        ELSE IF month # 0 /\ (month < 1 \/ month > 12)
        THEN [err |-> "month", items |-> <<>>]
        ELSE LET y == IF month > 0 /\ year = 0 THEN CurYear ELSE year
             IN  [err |-> "",
                  items |-> filterExpenses(ld.st, month, y, TrimSpace(category)).out]

ListMonths == {0, 2, 13}
ListYears == {0, 2024}
ListCats == {"", " food "}

\* the stores list is run on: what adds and updates leave behind (ids ascending
\* in store order and below nextId, every date valid)
StoredDates == {"2025-01-20", "2025-02-05", "2024-02-05"}
StoredCats == {defaultCat, "Food"}

ExpenseOf(id, date, cat) ==
    [id |-> id, date |-> date, description |-> "Lunch", amount |-> 1,
     category |-> cat, createdAt |-> id, updatedAt |-> id]

RECURSIVE StoresOf(_)
StoresOf(n) ==
    IF n = 0 THEN {[nextId |-> 1, expenses |-> <<>>, budgets |-> <<>>]}
    ELSE StoresOf(n - 1) \cup
         {[st EXCEPT !.nextId = n + 1,
                     !.expenses = Append(@, ExpenseOf(n, d, c))] :
              st \in {x \in StoresOf(n - 1) : x.nextId = n},
              d \in StoredDates, c \in StoredCats}

InitList ==
    /\ file \in {FullFile(st) : st \in StoresOf(MaxListed)}
    /\ tmp = NoFile
    /\ clock = 0
    /\ out = Report("", "", 0, <<>>, <<>>)
    /\ assigned = {}
    /\ ledger = <<>>
    /\ proc = [p \in Procs |-> Idle]

cmdList ==
    \E month \in ListMonths, year \in ListYears, category \in ListCats :
        LET r == ListResult(file, month, year, category)
        IN  /\ out' = Report("list", r.err, 0, <<>>,
                              IF r.err = "" THEN <<month, year, category, r.items>>
                              ELSE <<>>)
            /\ UNCHANGED <<file, tmp, clock, assigned, ledger, proc>>

NextList == cmdList

SpecList == InitList /\ [][NextList]_vars

----------------------------------------------------------------------------
(* Vocabulary of the properties *)

\* the store a later load of the data path returns
Stored == loadStore(file).st

Ids(st) == {st.expenses[i].id : i \in 1..Len(st.expenses)}

RECURSIVE SetSum(_, _)
SetSum(f, S) ==
    IF S = {} THEN 0
    ELSE LET x == CHOOSE y \in S : TRUE IN f[x] + SetSum(f, S \ {x})

\* the amounts of the expenses of st dated in the given year and month, summed
SpentIn(st, year, month) ==
    LET in == {i \in 1..Len(st.expenses) :
                  LET d == ParseDate(st.expenses[i].date)
                  IN  d.ok /\ d.year = year /\ d.month = month}
    IN  SetSum([i \in in |-> st.expenses[i].amount], in)

AddDone == out.cmd = "add" /\ out.err = ""
UpdateDone == out.cmd = "update" /\ out.err = ""
DeleteDone == out.cmd = "delete" /\ out.err = ""

----------------------------------------------------------------------------
(* C1: a successful add gives the new expense the nextId loaded just before *)
(* it and persists that value plus 1 as nextId; from a missing data file    *)
(* the first add gets id 1, the second id 2 (the k-th gets id k).           *)
C1_AddTakesNextID ==
    [][AddDone' =>
          /\ out'.id = loadStore(file).st.nextId
          /\ loadStore(file').st.nextId = out'.id + 1
          /\ Len(file'.data.expenses) = Len(loadStore(file).st.expenses) + 1
          /\ file'.data.expenses[Len(file'.data.expenses)].id = out'.id
          /\ (file = NoFile => out'.id = 1)
          /\ out'.id = Cardinality(assigned) + 1]_vars

C1_Witness == AddDone /\ out.id = 2 /\ file.state = "full" /\ file.data.nextId = 3

(* C2: over any sequence of add, update, delete and budget commands the     *)
(* persisted nextId never decreases and no add assigns an id that an        *)
(* earlier add assigned, deleted or not.                                    *)
C2_IdsNeverReused ==
    [][/\ loadStore(file').st.nextId >= loadStore(file).st.nextId
       /\ (AddDone' /\ file' # file) => out'.id \notin assigned]_vars

\* the second add ran after the expense with the highest id, 1, was deleted
C2_Witness == AddDone /\ out.id = 2 /\ Ids(Stored) = {2} /\ assigned = {1, 2}

(* C3: in every persisted store the expense ids are pairwise distinct, each *)
(* at least 1 and strictly less than nextId.                                *)
C3_IdsUniqueBelowNextID ==
    LET st == Stored
    IN  /\ \A i, j \in 1..Len(st.expenses) :
               i # j => st.expenses[i].id # st.expenses[j].id
        /\ \A i \in 1..Len(st.expenses) :
               st.expenses[i].id >= 1 /\ st.expenses[i].id < st.nextId

C3_Witness == Ids(Stored) = {1, 2} /\ Stored.nextId = 3 /\ out.cmd = "budget"

(* C4: every stored expense has amount > 0, whatever amounts add and update *)
(* were given.                                                              *)
C4_AmountsPositive ==
    \A i \in 1..Len(Stored.expenses) :
        Stored.expenses[i].amount # NaN /\ Stored.expenses[i].amount > 0

\* an update was refused for its amount while an expense is stored
C4_Witness ==
    out.cmd = "update" /\ out.err = "amount" /\ Len(Stored.expenses) > 0

(* C5: whenever the process is killed or fails inside save, the data path   *)
(* holds the complete previously committed store or the complete new one,   *)
(* never a partial or empty file; only the rename changes what a later load *)
(* of the data path returns.                                                *)
C5_OnlyRenameReplaces ==
    /\ [](/\ file.state \in {"missing", "full"}
          /\ \A p \in Procs : proc[p].pc # "idle" => file = proc[p].loaded)
    /\ [][file' # file =>
             \E p \in Procs : /\ proc[p].pc = "rename"
                              /\ proc'[p].pc = "idle"
                              /\ file' = FullFile(proc[p].res.st)
                              /\ out'.err = ""]_vars

\* killed part-way through writing the temp file, over a committed store
C5_Witness ==
    /\ out.err = "killed"
    /\ tmp.state = "partial"
    /\ file.state = "full" /\ tmp.data # file.data

(* C6: an invocation that returns an error leaves the persisted store       *)
(* exactly as it was before the invocation.                                 *)
C6_ErrorLeavesStore == [][out'.err # "" => file' = file]_vars

\* an update of the stored expense was refused for its amount under a budget
C6_Witness ==
    /\ out.cmd = "update" /\ out.err = "amount"
    /\ Ids(Stored) = {1} /\ DOMAIN Stored.budgets # {}

BlankTexts == {"", " "}

(* C9: an update of an existing id that supplies no description, amount,    *)
(* date or category, or only whitespace for the texts, succeeds and changes *)
(* only that expense's updatedAt in the persisted store.                    *)
C9_BareUpdateTouchesOnlyUpdatedAt ==
    \A id \in Ids(Stored), desc \in BlankTexts, date \in BlankTexts, cat \in BlankTexts :
        LET r == UpdateResult(file, id, desc, NotSet, date, cat, clock + 1)
            after == save(file, tmp, r.st, "none").file
        IN  /\ r.err = "" /\ r.save
            /\ after.state = "full"
            /\ after.data.nextId = Stored.nextId
            /\ after.data.budgets = Stored.budgets
            /\ Len(after.data.expenses) = Len(Stored.expenses)
            /\ \A i \in 1..Len(Stored.expenses) :
                   IF Stored.expenses[i].id = id
                   THEN after.data.expenses[i] =
                            [Stored.expenses[i] EXCEPT !.updatedAt = clock + 1]
                   ELSE after.data.expenses[i] = Stored.expenses[i]

\* an update that supplied nothing has run: no value update can supply is stored
C9_Witness ==
    /\ UpdateDone
    /\ \E i \in 1..Len(Stored.expenses) :
           LET e == Stored.expenses[i]
           IN  /\ e.id = out.id
               /\ e.updatedAt > e.createdAt
               /\ e.description = "Lunch" /\ e.amount = 1
               /\ e.date = Today /\ e.category = defaultCat

(* C10, as stated: every stored budget value is strictly positive.          *)
C10_BudgetsPositive ==
    \A k \in DOMAIN Stored.budgets : Stored.budgets[k] # NaN /\ Stored.budgets[k] > 0

(* C10, amended: every stored budget value is a number >= 0 (--set 0 is     *)
(* stored; a negative --set is never stored), one value per month-key.      *)
C10_BudgetsNonNegative ==
    \A k \in DOMAIN Stored.budgets : Stored.budgets[k] # NaN /\ Stored.budgets[k] >= 0

\* --set 0 overwrote the budget of one month-key while another keeps its 3
C10_Witness ==
    /\ out.cmd = "budget" /\ out.err = ""
    /\ DOMAIN Stored.budgets = {"2025-01", "2025-02"}
    /\ Stored.budgets["2025-01"] = 0 /\ Stored.budgets["2025-02"] = 3

ArgMonths == {0, 1, 2}
ArgYears == {0, 2024, 2025}
ArgCats == {"", "FOOD", "Travel"}

\* e satisfies every constraint that was supplied
Matches(e, month, year, category) ==
    /\ category = "" \/ Fold(category) = Fold(e.category)
    /\ month = 0 \/ (ParseDate(e.date).ok /\ ParseDate(e.date).month = month)
    /\ year = 0 \/ (ParseDate(e.date).ok /\ ParseDate(e.date).year = year)

(* C11: for every month (0 = none), year (0 = none) and category (empty =   *)
(* none), filterExpenses returns exactly the stored expenses that satisfy   *)
(* all supplied constraints, each once, ascending by date text and, among   *)
(* equal dates, by id; the store's own expense sequence is left as it was.  *)
C11_FilterExactAndOrdered ==
    \A month \in ArgMonths, year \in ArgYears, category \in ArgCats :
        LET es == Stored.expenses
            r == filterExpenses(Stored, month, year, category)
            want == {i \in 1..Len(es) : Matches(es[i], month, year, category)}
        IN  /\ Len(r.out) = Cardinality(want)
            /\ \A i \in want : \E j \in 1..Len(r.out) : r.out[j] = es[i]
            /\ \A j \in 1..Len(r.out) : \E i \in want : r.out[j] = es[i]
            /\ \A j, k \in 1..Len(r.out) : j < k => r.out[j].id # r.out[k].id
            /\ \A j \in 1..(Len(r.out) - 1) :
                   \/ StringLess(r.out[j].date, r.out[j + 1].date)
                   \/ /\ r.out[j].date = r.out[j + 1].date
                      /\ r.out[j].id < r.out[j + 1].id
            /\ r.expenses = es

\* list --category " food " on three expenses printed two of them, the later id
\* first because its date is the earlier one
C11_Witness ==
    /\ out.cmd = "list" /\ out.err = ""
    /\ Len(Stored.expenses) = 3
    /\ out.total[3] = " food "
    /\ Len(out.total[4]) = 2
    /\ out.total[4][1].id > out.total[4][2].id
    /\ out.total[4][1].category = "Food"

(* C12: with two mutating invocations running at once, the data path only   *)
(* ever changes to the complete store of an invocation, in the step in which *)
(* that invocation's rename succeeds and it reports success: the data path   *)
(* never holds a mixture of two writes or a partly written file, and an      *)
(* invocation that reports an error has not changed the persisted store.     *)
C12_LastWriterWins ==
    [][/\ file'.state \in {"missing", "full"}
       /\ file' # file =>
              \E p \in Procs :
                  /\ proc[p].pc = "rename" /\ proc'[p].pc = "idle"
                  /\ out'.err = ""
                  /\ file' = FullFile(proc[p].res.st)]_vars

====
